---- MODULE Spec2Model ----
(***************************************************************************)
(* Bearing-capacity engine of VASUDHA-GEOTECHCALC (src/types.ts, the       *)
(* engine part, lines 78-262) and the state of the surrounding App         *)
(* (src/App.tsx).                                                          *)
(*                                                                         *)
(* Numbers.  A JavaScript number is modelled as a record                   *)
(*     [k |-> "fin", v |-> n]   the finite value n/1000 (fixed point,      *)
(*                              three decimals, rounded to nearest),       *)
(*     [k |-> "inf", v |-> s]   +Infinity (s = 1) or -Infinity (s = -1),   *)
(*     [k |-> "nan", v |-> 0]   NaN.                                       *)
(* The arithmetic operators follow IEEE 754 on the non-finite values       *)
(* (x/0, 0/0, Inf-Inf, 0*Inf, comparisons with NaN).  Signed zeros are not *)
(* kept: every divisor of the engine that can be zero is a raw input.      *)
(* Overflow of a finite value to Infinity is outside the bounded inputs.   *)
(***************************************************************************)
EXTENDS Integers, Sequences, FiniteSets, TLC

----------------------------------------------------------------------------
(* Fixed-point integers: n stands for n/1000.                              *)

Scale == 10 * 10 * 10

IAbs(n) == IF n < 0 THEN -n ELSE n

ISgn(n) == IF n < 0 THEN -1 ELSE IF n > 0 THEN 1 ELSE 0

(* |a|*|b|/Scale rounded to nearest, without an intermediate a*b.          *)
IMulAbs(a, b) ==
    LET aq == a \div Scale
        ar == a % Scale
        bq == b \div Scale
        br == b % Scale
    IN  aq * bq * Scale + aq * br + ar * bq + ((ar * br + (Scale \div 2)) \div Scale)

IMul(a, b) == ISgn(a) * ISgn(b) * IMulAbs(IAbs(a), IAbs(b))

(* Long division: the first n decimal digits of r/b, 0 <= r < b.           *)
RECURSIVE IDigits(_, _, _)
IDigits(r, b, n) ==
    IF n = 0 THEN 0
    ELSE LET t == r * 10
         IN  (t \div b) * (10 ^ (n - 1)) + IDigits(t % b, b, n - 1)

(* |a|/|b| in thousandths, rounded to nearest; b > 0.                      *)
IDivAbs(a, b) ==
    LET tenth == (a \div b) * (Scale * 10) + IDigits(a % b, b, 4)
    IN  (tenth + 5) \div 10

IDiv(a, b) == ISgn(a) * ISgn(b) * IDivAbs(IAbs(a), IAbs(b))

----------------------------------------------------------------------------
(* JavaScript numbers.                                                     *)

Fin(n) == [k |-> "fin", v |-> n]

NaN == [k |-> "nan", v |-> 0]

Infinity(s) == [k |-> "inf", v |-> s]

isNaN(x) == x.k = "nan"

isFinite(x) == x.k = "fin"

NumSgn(x) == IF x.k = "inf" THEN x.v ELSE ISgn(x.v)

NumNeg(x) == [k |-> x.k, v |-> -x.v]

NumAdd(x, y) ==
    IF isNaN(x) \/ isNaN(y) THEN NaN
    ELSE IF x.k = "inf" THEN (IF y.k = "inf" /\ y.v # x.v THEN NaN ELSE x)
    ELSE IF y.k = "inf" THEN y
    ELSE Fin(x.v + y.v)

NumSub(x, y) == NumAdd(x, NumNeg(y))

NumMul(x, y) ==
    IF isNaN(x) \/ isNaN(y) THEN NaN
    ELSE IF x.k = "inf" \/ y.k = "inf"
         THEN (IF NumSgn(x) = 0 \/ NumSgn(y) = 0 THEN NaN
               ELSE Infinity(NumSgn(x) * NumSgn(y)))
    ELSE Fin(IMul(x.v, y.v))

(* x / y; a zero divisor is +0.                                            *)
NumDiv(x, y) ==
    IF isNaN(x) \/ isNaN(y) THEN NaN
    ELSE IF x.k = "inf"
         THEN (IF y.k = "inf" THEN NaN
               ELSE Infinity(x.v * (IF NumSgn(y) < 0 THEN -1 ELSE 1)))
    ELSE IF y.k = "inf" THEN Fin(0)
    ELSE IF y.v = 0
         THEN (IF x.v = 0 THEN NaN ELSE Infinity(ISgn(x.v)))
    ELSE Fin(IDiv(x.v, y.v))

(* x < y, x <= y, x > y, x >= y: false as soon as one side is NaN.         *)
NumLt(x, y) ==
    /\ ~isNaN(x)
    /\ ~isNaN(y)
    /\ \/ x.k = "fin" /\ y.k = "fin" /\ x.v < y.v
       \/ x.k = "inf" /\ x.v = -1 /\ ~(y.k = "inf" /\ y.v = -1)
       \/ y.k = "inf" /\ y.v = 1 /\ ~(x.k = "inf" /\ x.v = 1)

NumLe(x, y) == ~isNaN(x) /\ ~isNaN(y) /\ ~NumLt(y, x)

NumGt(x, y) == NumLt(y, x)

NumGe(x, y) == NumLe(y, x)

MathAbs(x) == IF x.k = "nan" THEN NaN ELSE [k |-> x.k, v |-> IAbs(x.v)]

MathMax(x, y) == IF isNaN(x) \/ isNaN(y) THEN NaN ELSE IF NumLt(x, y) THEN y ELSE x

MathMin(x, y) == IF isNaN(x) \/ isNaN(y) THEN NaN ELSE IF NumLt(y, x) THEN y ELSE x

(* Math.pow(x, 2)                                                          *)
MathPow2(x) == NumMul(x, x)

----------------------------------------------------------------------------
(* Math.PI, Math.tan, Math.atan, Math.exp in fixed point.                  *)

MathPI == 3142

(* sum of the series t, t*f/(n*(n+1)), ... while the term is non-zero;     *)
(* f is +-r^2, n the next denominator index.                               *)
RECURSIVE ISeries(_, _, _)
ISeries(t, f, n) ==
    IF t = 0 \/ n > 24 THEN 0
    ELSE t + ISeries(IDiv(IMul(t, f), n * (n + 1) * Scale), f, n + 2)

ISin(r) == ISeries(r, -IMul(r, r), 2)

ICos(r) == ISeries(Scale, -IMul(r, r), 1)

(* Math.tan: argument reduced into (-PI/2, PI/2], then sin/cos.  At an odd *)
(* multiple of PI/2 the quotient is non-finite; the friction angles of     *)
(* PhiSet stay away from it.                                               *)
MathTan(x) ==
    IF x.k # "fin" THEN NaN
    ELSE LET h == MathPI \div 2
             r == ((x.v + h) % MathPI) - h
         IN  NumDiv(Fin(ISin(r)), Fin(ICos(r)))

(* exp(r) for r >= 0: sum of r^n/n!                                        *)
RECURSIVE IExpSeries(_, _, _)
IExpSeries(t, r, n) ==
    IF t = 0 \/ n > 40 THEN 0
    ELSE t + IExpSeries(IDiv(IMul(t, r), n * Scale), r, n + 1)

MathExp(x) ==
    IF x.k = "nan" THEN NaN
    ELSE IF x.k = "inf" THEN (IF x.v = 1 THEN x ELSE Fin(0))
    ELSE IF x.v >= 0 THEN Fin(IExpSeries(Scale, x.v, 1))
    ELSE Fin(IDiv(Scale * Scale, IExpSeries(Scale, -x.v, 1) * Scale) )

(* atan on [0, 1]: x*(1 - .333 y + .200 y^2 - .142 y^3 + .107 y^4          *)
(*                     - .075 y^5 + .043 y^6 - .016 y^7 + .003 y^8),       *)
(* y = x^2 (Abramowitz & Stegun 4.4.49).                                   *)
IAtanUnit(x) ==
    LET y  == IMul(x, x)
        p8 == 3
        p7 == -16 + IMul(y, p8)
        p6 == 43 + IMul(y, p7)
        p5 == -75 + IMul(y, p6)
        p4 == 107 + IMul(y, p5)
        p3 == -142 + IMul(y, p4)
        p2 == 200 + IMul(y, p3)
        p1 == -333 + IMul(y, p2)
        p0 == Scale + IMul(y, p1)
    IN  IMul(x, p0)

MathAtan(x) ==
    IF x.k = "nan" THEN NaN
    ELSE IF x.k = "inf" THEN Fin(x.v * (MathPI \div 2))
    ELSE LET a == IAbs(x.v)
         IN  IF a <= Scale THEN Fin(ISgn(x.v) * IAtanUnit(a))
             ELSE Fin(ISgn(x.v) * ((MathPI \div 2) - IAtanUnit(IDiv(Scale * Scale, a * Scale))))

(* src/types.ts 78-84                                                      *)
deg2rad(deg) == NumDiv(NumMul(deg, Fin(MathPI)), Fin(180 * Scale))

rad2deg(rad) == NumDiv(NumMul(rad, Fin(180 * Scale)), Fin(MathPI))

----------------------------------------------------------------------------
(* Values other than numbers; JavaScript truthiness and strict equality.   *)

Lit(n) == Fin(n * Scale)

Null == [k |-> "null", v |-> 0]

Undefined == [k |-> "undefined", v |-> 0]

(* a value used as a condition: undefined, 0 and NaN are falsy             *)
Truthy(x) == x.k = "inf" \/ (x.k = "fin" /\ x.v # 0)

(* x === y on numbers                                                      *)
StrictEq(x, y) == ~isNaN(x) /\ ~isNaN(y) /\ x = y

----------------------------------------------------------------------------
(* The engine, src/types.ts 86-262.                                        *)

(* allowablePressureSPT with the middle sand segment starting at 50        *)
allowablePressureSPT_LowSandSegment(soilType, N) ==
    CASE soilType = "Cohesionless (Sand)" ->
           IF NumLt(N, Lit(10)) THEN NumAdd(Lit(50), NumMul(Lit(5), NumSub(N, Lit(5))))
           ELSE IF NumLt(N, Lit(30)) THEN NumAdd(Lit(50), NumMul(Lit(10), NumSub(N, Lit(10))))
           ELSE Lit(300)
      [] soilType = "Cohesive (Clay)" ->
           IF NumLt(N, Lit(4)) THEN Lit(50)
           ELSE IF NumLt(N, Lit(8)) THEN Lit(80)
           ELSE IF NumLt(N, Lit(15)) THEN Lit(100)
           ELSE Lit(200)
      [] soilType = "c-phi Soil" -> NumAdd(Lit(100), NumMul(Lit(10), N))
      [] soilType = "Rock" -> Lit(500)
      [] OTHER -> Lit(150)

allowablePressureSPT(soilType, N) ==
    CASE soilType = "Cohesionless (Sand)" ->
           IF NumLt(N, Lit(10)) THEN NumAdd(Lit(50), NumMul(Lit(5), NumSub(N, Lit(5))))
           ELSE IF NumLt(N, Lit(30)) THEN NumAdd(Lit(100), NumMul(Lit(10), NumSub(N, Lit(10))))
           ELSE Lit(300)
      [] soilType = "Cohesive (Clay)" ->
           IF NumLt(N, Lit(4)) THEN Lit(50)
           ELSE IF NumLt(N, Lit(8)) THEN Lit(80)
           ELSE IF NumLt(N, Lit(15)) THEN Lit(100)
           ELSE Lit(200)
      [] soilType = "c-phi Soil" -> NumAdd(Lit(100), NumMul(Lit(10), N))
      [] soilType = "Rock" -> Lit(500)
      [] OTHER -> Lit(150)

(* Eccentricity with the guard on V left out                               *)
Eccentricity_Unguarded(M, V) == MathAbs(NumDiv(M, V))

(* 1. Eccentricity and effective dimensions                                *)
Eccentricity(M, V) ==
    IF ~StrictEq(V, Fin(0)) THEN MathAbs(NumDiv(M, V)) ELSE Fin(0)

(* EffectiveDimension without the floor 0.1                                *)
EffectiveDimension_NoFloor(D, e) == NumSub(D, NumMul(Lit(2), e))

EffectiveDimension(D, e) == MathMax(NumSub(D, NumMul(Lit(2), e)), Fin(100))

(* EccentricityCheck against the effective dimensions                      *)
EccentricityCheck_Effective(ex, ey, B, L) ==
    \/ NumGt(NumDiv(ex, EffectiveDimension(B, ex)), NumDiv(Lit(1), Lit(6)))
    \/ NumGt(NumDiv(ey, EffectiveDimension(L, ey)), NumDiv(Lit(1), Lit(6)))

EccentricityCheck(ex, ey, B, L) ==
    \/ NumGt(NumDiv(ex, B), NumDiv(Lit(1), Lit(6)))
    \/ NumGt(NumDiv(ey, L), NumDiv(Lit(1), Lit(6)))

(* SurchargeCorrection with the water table ignored                        *)
SurchargeCorrection_AlwaysDry(gamma, gamma_sub, Df, water_table_depth) == NumMul(gamma, Df)

(* SurchargeCorrection with the test Dw <= Df left out                     *)
SurchargeCorrection_Unguarded(gamma, gamma_sub, Df, water_table_depth) ==
    IF water_table_depth # Null
    THEN NumAdd(NumMul(gamma, water_table_depth),
                NumMul(gamma_sub, NumSub(Df, water_table_depth)))
    ELSE NumMul(gamma, Df)

(* 2. water table corrections: the surcharge of term 2 ...                 *)
SurchargeCorrection(gamma, gamma_sub, Df, water_table_depth) ==
    IF water_table_depth # Null /\ NumLe(water_table_depth, Df)
    THEN NumAdd(NumMul(gamma, water_table_depth),
                NumMul(gamma_sub, NumSub(Df, water_table_depth)))
    ELSE NumMul(gamma, Df)

(* SelfWeightCorrection without the branch Dw >= Df + B                    *)
SelfWeightCorrection_NoClamp(Df, B, water_table_depth) ==
    IF water_table_depth = Null THEN Lit(1)
    ELSE IF NumLe(water_table_depth, Df) THEN Fin(500)
    ELSE NumMul(Fin(500), NumAdd(Lit(1), NumDiv(NumSub(water_table_depth, Df), B)))

(* SelfWeightCorrection interpolating with 0.5 + (Dw - Df)/B               *)
SelfWeightCorrection_FullSlope(Df, B, water_table_depth) ==
    IF water_table_depth = Null THEN Lit(1)
    ELSE IF NumLe(water_table_depth, Df) THEN Fin(500)
    ELSE IF NumGe(water_table_depth, NumAdd(Df, B)) THEN Lit(1)
    ELSE NumAdd(Fin(500), NumDiv(NumSub(water_table_depth, Df), B))

(* SelfWeightCorrection without the branch Dw <= Df                        *)
SelfWeightCorrection_NoBaseTest(Df, B, water_table_depth) ==
    IF water_table_depth = Null THEN Lit(1)
    ELSE IF NumGe(water_table_depth, NumAdd(Df, B)) THEN Lit(1)
    ELSE NumMul(Fin(500), NumAdd(Lit(1), NumDiv(NumSub(water_table_depth, Df), B)))

(* ... and the factor W' of term 3                                         *)
SelfWeightCorrection(Df, B, water_table_depth) ==
    IF water_table_depth = Null THEN Lit(1)
    ELSE IF NumLe(water_table_depth, Df) THEN Fin(500)
    ELSE IF NumGe(water_table_depth, NumAdd(Df, B)) THEN Lit(1)
    ELSE NumMul(Fin(500), NumAdd(Lit(1), NumDiv(NumSub(water_table_depth, Df), B)))

(* BearingCapacityFactors with the general formulas at every phi           *)
BearingCapacityFactors_NoBranch(phi) ==
    LET phi_rad == deg2rad(phi)
        Nq == NumMul(MathExp(NumMul(Fin(MathPI), MathTan(phi_rad))),
                     MathPow2(MathTan(NumAdd(NumDiv(Fin(MathPI), Lit(4)),
                                             NumDiv(phi_rad, Lit(2))))))
    IN  [Nc |-> NumDiv(NumSub(Nq, Lit(1)), MathTan(phi_rad)),
         Nq |-> Nq,
         Ngamma |-> NumMul(NumMul(Lit(2), NumAdd(Nq, Lit(1))), MathTan(phi_rad))]

(* 3. Bearing capacity factors                                             *)
BearingCapacityFactors(phi) ==
    IF NumGt(phi, Fin(0))
    THEN LET phi_rad == deg2rad(phi)
             Nq == NumMul(MathExp(NumMul(Fin(MathPI), MathTan(phi_rad))),
                          MathPow2(MathTan(NumAdd(NumDiv(Fin(MathPI), Lit(4)),
                                                  NumDiv(phi_rad, Lit(2))))))
         IN  [Nc |-> NumDiv(NumSub(Nq, Lit(1)), MathTan(phi_rad)),
              Nq |-> Nq,
              Ngamma |-> NumMul(NumMul(Lit(2), NumAdd(Nq, Lit(1))), MathTan(phi_rad))]
    ELSE [Nc |-> Fin(5140), Nq |-> Lit(1), Ngamma |-> Fin(0)]

(* tan(45 + phi/2), shared by the shape and depth factors                  *)
TanHalf(phi) == MathTan(deg2rad(NumAdd(Lit(45), NumDiv(phi, Lit(2)))))

(* ShapeFactors with the ratio formulas for a square at every phi          *)
ShapeFactors_SquareRatioAlways(shape, phi, B_prime, L_prime) ==
    LET ratio == NumDiv(B_prime, L_prime)
        scR == NumAdd(Lit(1), NumMul(Fin(200), ratio))
        sqR == NumAdd(Lit(1), NumMul(NumMul(Fin(200), ratio), TanHalf(phi)))
    IN  CASE shape = "Strip/Continuous" ->
               [sc |-> Lit(1), sq |-> Lit(1), sgamma |-> Lit(1)]
          [] shape = "Square" -> [sc |-> scR, sq |-> sqR, sgamma |-> Fin(800)]
          [] shape = "Rectangular" ->
               [sc |-> scR, sq |-> sqR,
                sgamma |-> NumSub(Lit(1), NumMul(Fin(400), ratio))]
          [] shape = "Circular" ->
               [sc |-> Fin(1300), sq |-> Fin(1200), sgamma |-> Fin(600)]
          [] OTHER -> [sc |-> Lit(1), sq |-> Lit(1), sgamma |-> Lit(1)]

(* 4. Shape factors                                                        *)
ShapeFactors(shape, phi, B_prime, L_prime) ==
    LET ratio == NumDiv(B_prime, L_prime)
        scR == NumAdd(Lit(1), NumMul(Fin(200), ratio))
        sqR == NumAdd(Lit(1), NumMul(NumMul(Fin(200), ratio), TanHalf(phi)))
    IN  CASE shape = "Strip/Continuous" ->
               [sc |-> Lit(1), sq |-> Lit(1), sgamma |-> Lit(1)]
          [] shape = "Square" ->
               IF NumGt(phi, Fin(0))
               THEN [sc |-> scR, sq |-> sqR, sgamma |-> Fin(800)]
               ELSE [sc |-> Fin(1300), sq |-> Lit(1), sgamma |-> Fin(800)]
          [] shape = "Rectangular" ->
               [sc |-> scR, sq |-> sqR,
                sgamma |-> NumSub(Lit(1), NumMul(Fin(400), ratio))]
          [] shape = "Circular" ->
               [sc |-> Fin(1300), sq |-> Fin(1200), sgamma |-> Fin(600)]
          [] OTHER -> [sc |-> Lit(1), sq |-> Lit(1), sgamma |-> Lit(1)]

(* 5. Depth factors                                                        *)
DepthFactors(Df, B, phi) ==
    LET D_B_ratio == NumDiv(Df, B)
        factor == IF NumLe(D_B_ratio, Lit(1)) THEN D_B_ratio ELSE MathAtan(D_B_ratio)
    IN  [dc |-> NumAdd(Lit(1), NumMul(NumMul(Fin(200), factor), TanHalf(phi))),
         dq |-> NumAdd(Lit(1), NumMul(NumMul(Fin(100), factor), TanHalf(phi))),
         dgamma |-> Lit(1)]

(* 6. Inclination factors                                                  *)
InclinationAngle(V, H) ==
    IF NumGt(V, Fin(0)) THEN rad2deg(MathAtan(NumDiv(H, V))) ELSE Fin(0)

InclinationFactors(alpha, phi) ==
    LET phi_temp == IF StrictEq(phi, Fin(0)) THEN Fin(1) ELSE phi
        ic == MathPow2(NumSub(Lit(1), NumDiv(alpha, Lit(90))))
    IN  [ic |-> ic, iq |-> ic,
         igamma |-> MathPow2(NumSub(Lit(1), NumDiv(alpha, phi_temp)))]

(* Capacities with the gross capacity divided by FOS                       *)
Capacities_GrossOverFos(term1, term2, term3, q_surcharge, FOS) ==
    LET qu  == NumAdd(NumAdd(term1, term2), term3)
        qnu == NumSub(qu, q_surcharge)
        qns == NumDiv(qu, FOS)
    IN  [qu |-> qu, qnu |-> qnu, qns |-> qns, qs |-> NumAdd(qns, q_surcharge)]

(* 8. Capacities                                                           *)
Capacities(term1, term2, term3, q_surcharge, FOS) ==
    LET qu  == NumAdd(NumAdd(term1, term2), term3)
        qnu == NumSub(qu, q_surcharge)
        qns == NumDiv(qnu, FOS)
    IN  [qu |-> qu, qnu |-> qnu, qns |-> qns, qs |-> NumAdd(qns, q_surcharge)]

(* 9. SPT check                                                            *)
SptCheck(type, spt_n) ==
    IF Truthy(spt_n) THEN allowablePressureSPT(type, spt_n) ELSE NaN

(* 10. Recommended safe pressure                                           *)
RecommendedSafePressure(qs, qa_spt) ==
    IF ~isNaN(qa_spt) THEN MathMin(qs, qa_spt) ELSE qs

(* Settlement with the elastic method for every supplied non-zero Es       *)
Settlement_AnySupplied(type, Es, qs, B) ==
    IF Truthy(Es)
    THEN NumMul(NumDiv(NumMul(NumMul(NumMul(qs, B), NumSub(Lit(1), MathPow2(Fin(300)))),
                              Fin(820)),
                       Es),
                Lit(1000))
    ELSE IF type = "Cohesive (Clay)"
         THEN NumMul(NumDiv(qs, Lit(50)), Lit(25))
         ELSE NumMul(NumDiv(qs, Lit(100)), Lit(15))

(* 11. Settlement                                                          *)
Settlement(type, Es, qs, B) ==
    IF Truthy(Es) /\ NumGt(Es, Fin(0))
    THEN LET mu == Fin(300)
             I  == Fin(820)
         IN  NumMul(NumDiv(NumMul(NumMul(NumMul(qs, B), NumSub(Lit(1), MathPow2(mu))), I),
                           Es),
                    Lit(1000))
    ELSE IF type = "Cohesive (Clay)"
         THEN NumMul(NumDiv(qs, Lit(50)), Lit(25))
         ELSE NumMul(NumDiv(qs, Lit(100)), Lit(15))

(* 12. Determine Status                                                    *)
DetermineStatus(settlement, eccentricity_check) ==
    IF NumGt(settlement, Lit(25)) THEN "SETTLEMENT GOVERNING"
    ELSE IF eccentricity_check THEN "HIGH ECCENTRICITY"
    ELSE "SAFE"

(* The body of calculateBearingCapacity, one operator per numbered section *)
(* of the source; each passes the constants computed so far to the next:   *)
(* g = section 1, w = section 2, f = sections 3-6, t = section 7,          *)
(* q = section 8.                                                          *)

Geometry(foundation, load) ==
    [ex |-> Eccentricity(load.My, load.V),
     ey |-> Eccentricity(load.Mx, load.V),
     B_prime |-> EffectiveDimension(foundation.B, Eccentricity(load.My, load.V)),
     L_prime |-> EffectiveDimension(foundation.L, Eccentricity(load.Mx, load.V)),
     eccentricity_check |->
       EccentricityCheck(Eccentricity(load.My, load.V), Eccentricity(load.Mx, load.V),
                         foundation.B, foundation.L)]

WaterTableCorrections(soil, foundation, water_table_depth) ==
    [q_surcharge |->
       SurchargeCorrection(soil.gamma, soil.gamma_sub, foundation.Df, water_table_depth),
     W_prime |-> SelfWeightCorrection(foundation.Df, foundation.B, water_table_depth),
     gamma_eff |->
       NumMul(soil.gamma,
              SelfWeightCorrection(foundation.Df, foundation.B, water_table_depth))]

Factors(soil, foundation, load, g) ==
    [N |-> BearingCapacityFactors(soil.phi),
     s |-> ShapeFactors(foundation.shape, soil.phi, g.B_prime, g.L_prime),
     d |-> DepthFactors(foundation.Df, foundation.B, soil.phi),
     i |-> InclinationFactors(InclinationAngle(load.V, load.H), soil.phi)]

(* 7. Calculate terms                                                      *)
Terms(soil, g, w, f) ==
    [term1 |-> NumMul(NumMul(NumMul(NumMul(soil.c, f.N.Nc), f.s.sc), f.d.dc), f.i.ic),
     term2 |-> NumMul(NumMul(NumMul(NumMul(w.q_surcharge, f.N.Nq), f.s.sq), f.d.dq), f.i.iq),
     term3 |-> NumMul(NumMul(NumMul(NumMul(NumMul(NumMul(Fin(500), w.gamma_eff), g.B_prime),
                                           f.N.Ngamma), f.s.sgamma), f.d.dgamma), f.i.igamma)]

(* sections 9-12 and the returned record, lines 215-261                    *)
Outcome(soil, foundation, FOS, g, w, f, t, q, qa_spt, settlement) ==
    [SoilType |-> soil.type, Cohesion |-> soil.c, FrictionAngle |-> soil.phi,
     UnitWeight |-> soil.gamma, FoundationShape |-> foundation.shape,
     FoundationWidth |-> foundation.B, FoundationLength |-> foundation.L,
     FoundationDepth |-> foundation.Df, FOS |-> FOS,
     ex |-> g.ex, ey |-> g.ey, B_prime |-> g.B_prime, L_prime |-> g.L_prime,
     eccentricity_check |-> g.eccentricity_check,
     Nc |-> f.N.Nc, Nq |-> f.N.Nq, Ngamma |-> f.N.Ngamma,
     sc |-> f.s.sc, sq |-> f.s.sq, sgamma |-> f.s.sgamma,
     dc |-> f.d.dc, dq |-> f.d.dq, dgamma |-> f.d.dgamma,
     ic |-> f.i.ic, iq |-> f.i.iq, igamma |-> f.i.igamma,
     W_prime |-> w.W_prime,
     term1 |-> t.term1, term2 |-> t.term2, term3 |-> t.term3,
     qu |-> q.qu, qnu |-> q.qnu, qns |-> q.qns, qs |-> q.qs,
     qa_spt |-> qa_spt,
     recommended_sbc |-> RecommendedSafePressure(q.qs, qa_spt),
     settlement |-> settlement,
     status |-> DetermineStatus(settlement, g.eccentricity_check)]

FromCapacities(soil, foundation, FOS, g, w, f, t, q) ==
    Outcome(soil, foundation, FOS, g, w, f, t, q,
            SptCheck(soil.type, soil.spt_n),
            Settlement(soil.type, soil.Es, q.qs, foundation.B))

FromTerms(soil, foundation, FOS, g, w, f, t) ==
    FromCapacities(soil, foundation, FOS, g, w, f, t,
                   Capacities(t.term1, t.term2, t.term3, w.q_surcharge, FOS))

FromFactors(soil, foundation, FOS, g, w, f) ==
    FromTerms(soil, foundation, FOS, g, w, f, Terms(soil, g, w, f))

FromGeometry(soil, foundation, load, FOS, g, w) ==
    FromFactors(soil, foundation, FOS, g, w, Factors(soil, foundation, load, g))

calculateBearingCapacity(soil, foundation, load, water_table_depth, FOS) ==
    FromGeometry(soil, foundation, load, FOS,
                 Geometry(foundation, load),
                 WaterTableCorrections(soil, foundation, water_table_depth))

----------------------------------------------------------------------------
(* One call of the engine: the caller's arguments, the returned record.    *)

VARIABLES soil, foundation, load, waterTable, fos, results, pc,
          sensitivityData, isExportOpen, exported

vars == <<soil, foundation, load, waterTable, fos, results, pc,
          sensitivityData, isExportOpen, exported>>

(* bounds of the argument sets                                             *)
MaxWaterSteps == 8

MaxWidthSteps == 4

MaxDepthSteps == 3

MaxSptSteps == 6

MaxSptCount == 32

(* the App's initial inputs, src/App.tsx 44-69                             *)
DefaultSoil ==
    [type |-> "Cohesionless (Sand)", c |-> Fin(0), phi |-> Lit(30), gamma |-> Lit(18),
     gamma_sub |-> Lit(10), spt_n |-> Lit(15), Es |-> Lit(20000)]

DefaultFoundation == [shape |-> "Square", B |-> Lit(2), L |-> Lit(2), Df |-> Fin(1500)]

DefaultLoad == [V |-> Lit(500), H |-> Fin(0), Mx |-> Fin(0), My |-> Fin(0)]

DefaultWaterTable == Lit(5)

DefaultFos == Lit(3)

SoilTypes == {"Cohesionless (Sand)", "Cohesive (Clay)", "c-phi Soil", "Rock", "Other"}

FoundationShapes == {"Strip/Continuous", "Square", "Rectangular", "Circular"}

(* argument values, in half metres / five blows                            *)
WidthSet == {Fin(500 * n) : n \in -1 .. MaxWidthSteps}

LengthSet == {Fin(0), Lit(2), Lit(3)}

DepthSet == {Fin(500 * n) : n \in -1 .. MaxDepthSteps}

WaterSet == {Null} \cup {Fin(500 * n) : n \in -1 .. MaxWaterSteps}

SptSet == {Undefined} \cup {Lit(5 * n) : n \in 0 .. MaxSptSteps}

EsSet == {Undefined, Fin(0), Lit(-1), Lit(20000)}

PhiSet == {Fin(0), Lit(30)}

CohesionSet == {Fin(0), Lit(20)}

FosSet == {Lit(-1), Fin(0), Lit(1), Lit(3)}

VSet == {Lit(-500), Fin(0), Lit(500)}

HSet == {Fin(0), Lit(5)}

(* a horizontal load that tilts the resultant by more than one degree      *)
SteepHSet == {Fin(0), Lit(5), Lit(12)}

MxSet == {Fin(0), Lit(300)}

MySet == {Fin(0), Lit(75), Lit(600)}

Call(s, f, l, w, k) == [soil |-> s, foundation |-> f, load |-> l, waterTable |-> w, fos |-> k]

(* soil profile and safety factor varied, the rest as in the App           *)
SoilCalls ==
    {Call([DefaultSoil EXCEPT !.type = t, !.phi = p, !.c = c, !.spt_n = n, !.Es = e],
          DefaultFoundation, DefaultLoad, DefaultWaterTable, k) :
       t \in SoilTypes, p \in PhiSet, c \in CohesionSet, n \in SptSet, e \in EsSet,
       k \in FosSet}

(* geometry and water table varied                                         *)
WaterCalls ==
    {Call([DefaultSoil EXCEPT !.phi = p],
          [DefaultFoundation EXCEPT !.B = b, !.Df = d], DefaultLoad, w, k) :
       p \in PhiSet, b \in WidthSet, d \in DepthSet, w \in WaterSet, k \in {Fin(0), Lit(3)}}

(* loads, shape and plan dimensions varied                                 *)
LoadCalls ==
    {Call([DefaultSoil EXCEPT !.phi = p],
          [DefaultFoundation EXCEPT !.shape = sh, !.B = b, !.L = l],
          [V |-> v, H |-> h, Mx |-> mx, My |-> my], DefaultWaterTable, DefaultFos) :
       p \in PhiSet, sh \in FoundationShapes, b \in WidthSet, l \in LengthSet,
       v \in VSet, h \in HSet, mx \in MxSet, my \in MySet}

(* inclined loads on shallow and deep bases, with and without strength     *)
InclinedCalls ==
    {Call([DefaultSoil EXCEPT !.phi = p, !.c = c],
          [DefaultFoundation EXCEPT !.shape = sh, !.Df = d],
          [DefaultLoad EXCEPT !.H = h], DefaultWaterTable, k) :
       p \in PhiSet, c \in CohesionSet, sh \in FoundationShapes, d \in DepthSet,
       h \in SteepHSet, k \in {Lit(1), Lit(3)}}

(* every penetration count from 1 on, for each classification             *)
CountCalls ==
    {Call([DefaultSoil EXCEPT !.type = t, !.spt_n = Lit(n)],
          DefaultFoundation, DefaultLoad, DefaultWaterTable, DefaultFos) :
       t \in SoilTypes, n \in 1 .. MaxSptCount}

Calls == SoilCalls \cup WaterCalls \cup LoadCalls \cup InclinedCalls \cup CountCalls

NoResults == [status |-> "PENDING"]

(* no document has been handed to the browser by the last step             *)
NoDocument == [kind |-> "none"]

Init ==
    /\ \E a \in Calls :
         /\ soil = a.soil
         /\ foundation = a.foundation
         /\ load = a.load
         /\ waterTable = a.waterTable
         /\ fos = a.fos
    /\ results = NoResults
    /\ pc = "called"
    /\ sensitivityData = << >>
    /\ isExportOpen = FALSE
    /\ exported = NoDocument

(* the call runs to its only exit, the return of line 240                  *)
Evaluate ==
    /\ pc = "called"
    /\ results' = calculateBearingCapacity(soil, foundation, load, waterTable, fos)
    /\ pc' = "returned"
    /\ UNCHANGED <<soil, foundation, load, waterTable, fos>>
    /\ UNCHANGED <<sensitivityData, isExportOpen, exported>>

Next == Evaluate

Spec == Init /\ [][Next]_vars

----------------------------------------------------------------------------
(* The App, src/App.tsx: the input state, the two memoised values and the  *)
(* export menu.  Every handler sets state and the component renders again, *)
(* which recomputes the memoised values whose dependencies changed.        *)

(* x.toFixed(digits), digits <= 3: the nearest multiple of 10^-digits,     *)
(* halves away from zero; NaN and the infinities print as themselves       *)
toFixed(x, digits) ==
    IF ~isFinite(x) THEN x
    ELSE LET unit == 10 ^ (3 - digits)
         IN  Fin(ISgn(x.v) * (((IAbs(x.v) + (unit \div 2)) \div unit) * unit))

(* the text of an input field is the number typed or the empty text        *)
EmptyText == [k |-> "empty", v |-> 0]

parseFloat(text) == IF text = EmptyText THEN NaN ELSE text

(* value || fallback                                                       *)
OrElse(value, fallback) == IF Truthy(value) THEN value ELSE fallback

(* bounds of the texts typed into the App                                  *)
MaxTypedWidth == 3

MaxSliderSteps == 3

PhiTexts == {EmptyText, Lit(30)}

WidthTexts == {EmptyText} \cup {Lit(n) : n \in 2 .. MaxTypedWidth}

WaterTexts == {Fin(1500), Lit(5)} \cup {Fin(1500 + 2000 * n) : n \in 1 .. MaxSliderSteps - 2}

FosTexts == {EmptyText, Lit(3)}

AppShapes == {"Square", "Rectangular"}

(* ResultsMemo without fos among its dependencies                          *)
ResultsMemo_NoFosDependency(s, f, l, w, k) ==
    calculateBearingCapacity(s, f, l, w, DefaultFos)

(* const results = useMemo(...)                                            *)
ResultsMemo(s, f, l, w, k) == calculateBearingCapacity(s, f, l, w, k)

(* the widths b = 1, 1.5, ..., 6 of the sweep                              *)
SweepWidths == [i \in 1 .. 11 |-> Fin(500 * (i + 1))]

SweepFoundation(f, b) ==
    [f EXCEPT !.B = b, !.L = IF f.shape = "Square" THEN b ELSE f.L]

SweepPoint(b, res) ==
    [width |-> toFixed(b, 1),
     sbc |-> parseFloat(toFixed(res.recommended_sbc, 2)),
     settlement |-> parseFloat(toFixed(res.settlement, 2))]

(* const sensitivityData = useMemo(...)                                    *)
SensitivityMemo(s, f, l, w, k) ==
    [i \in 1 .. 11 |->
       SweepPoint(SweepWidths[i],
                  calculateBearingCapacity(s, SweepFoundation(f, SweepWidths[i]), l, w, k))]

handleSoilChange(prev, field, value) == [prev EXCEPT ![field] = value]

handleFoundationChange(prev, field, value) == [prev EXCEPT ![field] = value]

getWaterTableStatus ==
    IF NumLe(waterTable, foundation.Df) THEN "Surcharge Correction Active"
    ELSE IF NumLe(waterTable, NumAdd(foundation.Df, foundation.B))
         THEN "Self-Weight Correction Active"
         ELSE "No Correction (Dry)"

(* the figures of the printed page and of the CSV rows                     *)
Report(kind) ==
    [kind |-> kind,
     recommended_sbc |-> toFixed(results.recommended_sbc, 2),
     settlement |-> toFixed(results.settlement, 2),
     qu |-> toFixed(results.qu, 2),
     status |-> results.status,
     W_prime |-> toFixed(results.W_prime, 3)]

(* the render that follows a change of the input state                     *)
Render ==
    /\ results' = ResultsMemo(soil', foundation', load', waterTable', fos')
    /\ sensitivityData' = SensitivityMemo(soil', foundation', load', waterTable', fos')
    /\ exported' = NoDocument
    /\ UNCHANGED <<pc, isExportOpen>>

AppInit ==
    /\ soil = DefaultSoil
    /\ foundation = DefaultFoundation
    /\ load = DefaultLoad
    /\ waterTable = DefaultWaterTable
    /\ fos = DefaultFos
    /\ results = ResultsMemo(DefaultSoil, DefaultFoundation, DefaultLoad,
                             DefaultWaterTable, DefaultFos)
    /\ sensitivityData = SensitivityMemo(DefaultSoil, DefaultFoundation, DefaultLoad,
                                         DefaultWaterTable, DefaultFos)
    /\ pc = "rendered"
    /\ isExportOpen = FALSE
    /\ exported = NoDocument

EditFrictionAngle ==
    \E text \in PhiTexts :
      /\ soil' = handleSoilChange(soil, "phi", OrElse(parseFloat(text), Fin(0)))
      /\ UNCHANGED <<foundation, load, waterTable, fos>>
      /\ Render

EditShape ==
    \E shape \in AppShapes :
      /\ foundation' = handleFoundationChange(foundation, "shape", shape)
      /\ UNCHANGED <<soil, load, waterTable, fos>>
      /\ Render

EditWidth ==
    \E text \in WidthTexts :
      /\ foundation' = handleFoundationChange(foundation, "B", OrElse(parseFloat(text), Fin(0)))
      /\ UNCHANGED <<soil, load, waterTable, fos>>
      /\ Render

SlideWaterTable ==
    \E text \in WaterTexts :
      /\ waterTable' = OrElse(parseFloat(text), Fin(0))
      /\ UNCHANGED <<soil, foundation, load, fos>>
      /\ Render

EditFos ==
    \E text \in FosTexts :
      /\ fos' = OrElse(parseFloat(text), Lit(1))
      /\ UNCHANGED <<soil, foundation, load, waterTable>>
      /\ Render

ToggleExportMenu ==
    /\ isExportOpen' = ~isExportOpen
    /\ exported' = NoDocument
    /\ UNCHANGED <<soil, foundation, load, waterTable, fos, results, pc, sensitivityData>>

handleExportPDF ==
    /\ isExportOpen
    /\ exported' = Report("print")
    /\ isExportOpen' = FALSE
    /\ UNCHANGED <<soil, foundation, load, waterTable, fos, results, pc, sensitivityData>>

handleExportCSV ==
    /\ isExportOpen
    /\ exported' = Report("csv")
    /\ isExportOpen' = FALSE
    /\ UNCHANGED <<soil, foundation, load, waterTable, fos, results, pc, sensitivityData>>

AppNext ==
    \/ EditFrictionAngle
    \/ EditShape
    \/ EditWidth
    \/ SlideWaterTable
    \/ EditFos
    \/ ToggleExportMenu
    \/ handleExportPDF
    \/ handleExportCSV

AppSpec == AppInit /\ [][AppNext]_vars

----------------------------------------------------------------------------
(* Properties of the returned record.                                      *)

Returned == pc = "returned"

WaterSupplied == waterTable # Null

(* the surcharge named by the properties, from the arguments alone         *)
DrySurcharge == NumMul(soil.gamma, foundation.Df)

SubmergedSurcharge ==
    NumAdd(NumMul(soil.gamma, waterTable),
           NumMul(soil.gamma_sub, NumSub(foundation.Df, waterTable)))

(* term2, qnu and qs of the returned record are built on the surcharge q   *)
UsesSurcharge(q) ==
    /\ results.term2 =
         NumMul(NumMul(NumMul(NumMul(q, results.Nq), results.sq), results.dq), results.iq)
    /\ results.qnu = NumSub(results.qu, q)
    /\ results.qs = NumAdd(results.qns, q)

NumericFields ==
    {"ex", "ey", "B_prime", "L_prime", "Nc", "Nq", "Ngamma", "sc", "sq", "sgamma",
     "dc", "dq", "dgamma", "ic", "iq", "igamma", "W_prime", "term1", "term2", "term3",
     "qu", "qnu", "qns", "qs", "recommended_sbc", "settlement"}

(* C1: a call with a safety factor FOS <= 0 does not return an ordinary    *)
(* record (it reports an invalid configuration), so qnu is never divided   *)
(* by a zero or negative FOS.                                              *)
C1_NonPositiveFosRejected == NumLe(fos, Fin(0)) => pc # "returned"

(* C2: in every returned record qu = term1 + term2 + term3,                *)
(* qnu = qu - q_surcharge, qns = qnu / FOS and qs = qns + q_surcharge,     *)
(* q_surcharge being the water-table-corrected surcharge of term2.         *)
C2_CapacityIdentities ==
    Returned =>
      /\ results.qu = NumAdd(NumAdd(results.term1, results.term2), results.term3)
      /\ results.qns = NumDiv(results.qnu, fos)
      /\ UsesSurcharge(IF WaterSupplied /\ NumLe(waterTable, foundation.Df)
                       THEN SubmergedSurcharge ELSE DrySurcharge)

C2_Witness ==
    /\ Returned
    /\ WaterSupplied
    /\ NumLt(waterTable, foundation.Df)
    /\ NumGt(fos, Lit(1))
    /\ isFinite(results.qs)
    /\ NumGt(results.term3, Fin(0))
    /\ NumGt(results.qnu, results.qns)
    /\ NumGt(results.qs, results.qns)

(* C3: the status is 'SETTLEMENT GOVERNING' exactly when settlement > 25,  *)
(* 'HIGH ECCENTRICITY' exactly when settlement <= 25 and the eccentricity  *)
(* flag is set, 'SAFE' exactly when settlement <= 25 and the flag is clear.*)
C3_StatusPriority ==
    Returned =>
      /\ results.status = "SETTLEMENT GOVERNING" <=> NumGt(results.settlement, Lit(25))
      /\ results.status = "HIGH ECCENTRICITY" <=>
           (NumLe(results.settlement, Lit(25)) /\ results.eccentricity_check)
      /\ results.status = "SAFE" <=>
           (NumLe(results.settlement, Lit(25)) /\ ~results.eccentricity_check)

(* C4: with FOS > 0 every numeric field of the returned record is finite   *)
(* (no division by zero shows in it), except qa_spt, which is finite or    *)
(* the not-applicable marker NaN, and is the marker when no penetration    *)
(* count is supplied.                                                      *)
C4_AllFieldsFinite ==
    (Returned /\ NumGt(fos, Fin(0))) =>
      /\ \A f \in NumericFields : isFinite(results[f])
      /\ isFinite(results.qa_spt) \/ isNaN(results.qa_spt)
      /\ soil.spt_n = Undefined => isNaN(results.qa_spt)

(* C5: with a penetration count supplied, recommended_sbc is               *)
(* min(qs, qa_spt), qa_spt the table value of the classification and the   *)
(* count; with none supplied it is qs; in both cases it is <= qs.          *)
C5_RecommendedIsMinimum ==
    Returned =>
      /\ soil.spt_n # Undefined =>
           /\ results.qa_spt = allowablePressureSPT(soil.type, soil.spt_n)
           /\ results.recommended_sbc = MathMin(results.qs, results.qa_spt)
      /\ soil.spt_n = Undefined => results.recommended_sbc = results.qs
      /\ NumLe(results.recommended_sbc, results.qs)

(* C6: with a water table supplied at Dw <= Df, the surcharge of term2,    *)
(* qnu and qs is gamma*Dw + gamma_sub*(Df - Dw), and W' is 0.5.            *)
C6_SubmergedSurcharge ==
    (Returned /\ WaterSupplied /\ NumLe(waterTable, foundation.Df)) =>
      /\ UsesSurcharge(SubmergedSurcharge)
      /\ results.W_prime = Fin(500)

C6_Witness ==
    /\ Returned
    /\ WaterSupplied
    /\ NumGt(waterTable, Fin(0))
    /\ NumLt(waterTable, foundation.Df)
    /\ SubmergedSurcharge # DrySurcharge
    /\ isFinite(results.qs)
    /\ NumGt(results.term2, Fin(0))

(* C7: with no water table the surcharge is gamma*Df and W' is 1; the same *)
(* dry surcharge is used when a supplied water table lies below the base   *)
(* (Dw > Df).                                                              *)
C7_DrySurcharge ==
    Returned =>
      /\ ~WaterSupplied => (UsesSurcharge(DrySurcharge) /\ results.W_prime = Lit(1))
      /\ (WaterSupplied /\ NumGt(waterTable, foundation.Df)) => UsesSurcharge(DrySurcharge)

C7_Witness ==
    /\ Returned
    /\ ~WaterSupplied
    /\ NumGt(foundation.Df, Fin(0))
    /\ isFinite(results.qs)
    /\ NumGt(results.term2, Fin(0))

(* C8, as stated: with a water table supplied at Dw >= Df + B, W' is 1     *)
(* for any B, B <= 0 included.                                             *)
C8_BelowInfluenceAnyWidth ==
    (Returned /\ WaterSupplied /\ NumGe(waterTable, NumAdd(foundation.Df, foundation.B)))
      => results.W_prime = Lit(1)

(* C8, amended: with a water table supplied at Dw >= Df + B and below the  *)
(* base (Dw > Df, which Dw >= Df + B implies when B > 0), W' is 1.         *)
C8_BelowInfluenceZone ==
    (/\ Returned
     /\ WaterSupplied
     /\ NumGe(waterTable, NumAdd(foundation.Df, foundation.B))
     /\ NumGt(waterTable, foundation.Df))
      => results.W_prime = Lit(1)

C8_Witness ==
    /\ Returned
    /\ WaterSupplied
    /\ NumGt(foundation.B, Fin(0))
    /\ NumGt(waterTable, NumAdd(foundation.Df, foundation.B))
    /\ results.W_prime = Lit(1)

(* the interpolation formula 0.5*(1 + (Dw - Df)/B)                         *)
Interpolation(Dw, Df, B) == NumMul(Fin(500), NumAdd(Lit(1), NumDiv(NumSub(Dw, Df), B)))

(* C9: for Df < Dw < Df + B, W' = 0.5*(1 + (Dw - Df)/B); at Dw = Df the    *)
(* formula gives 0.5 and at Dw = Df + B it gives 1.0, the values returned  *)
(* at those two depths.                                                    *)
C9_InterpolationContinuous ==
    (Returned /\ WaterSupplied) =>
      LET Dw == waterTable
          Df == foundation.Df
          B  == foundation.B
      IN  /\ (NumLt(Df, Dw) /\ NumLt(Dw, NumAdd(Df, B))) =>
                results.W_prime = Interpolation(Dw, Df, B)
          /\ (NumGt(B, Fin(0)) /\ Dw = Df) =>
                (Interpolation(Dw, Df, B) = Fin(500) /\ results.W_prime = Fin(500))
          /\ (NumGt(B, Fin(0)) /\ Dw = NumAdd(Df, B)) =>
                (Interpolation(Dw, Df, B) = Lit(1) /\ results.W_prime = Lit(1))

C9_Witness ==
    /\ Returned
    /\ WaterSupplied
    /\ NumLt(foundation.Df, waterTable)
    /\ NumLt(waterTable, NumAdd(foundation.Df, foundation.B))
    /\ NumGt(results.W_prime, Fin(500))
    /\ NumLt(results.W_prime, Lit(1))

(* C10, as stated: with V = 0 (any moments, any B and L) ex = 0, ey = 0,   *)
(* B_prime = B and L_prime = L.                                            *)
C10_ZeroLoadKeepsDimensions ==
    (Returned /\ load.V = Fin(0)) =>
      /\ results.ex = Fin(0)
      /\ results.ey = Fin(0)
      /\ results.B_prime = foundation.B
      /\ results.L_prime = foundation.L

(* C10, amended: with V = 0 (any moments, any B and L) ex = 0, ey = 0,     *)
(* B_prime = max(B, 0.1) and L_prime = max(L, 0.1): the dimensions are     *)
(* kept exactly when they are at least the floor 0.1.                      *)
C10_ZeroLoadFlooredDimensions ==
    (Returned /\ load.V = Fin(0)) =>
      /\ results.ex = Fin(0)
      /\ results.ey = Fin(0)
      /\ results.B_prime = (IF NumGe(foundation.B, Fin(100)) THEN foundation.B ELSE Fin(100))
      /\ results.L_prime = (IF NumGe(foundation.L, Fin(100)) THEN foundation.L ELSE Fin(100))

C10_Witness ==
    /\ Returned
    /\ load.V = Fin(0)
    /\ load.My # Fin(0)
    /\ load.Mx # Fin(0)
    /\ NumGe(foundation.B, Fin(100))
    /\ results.B_prime = foundation.B

(* what is left of a plan dimension D under the eccentricity e             *)
Reduced(D, e) == NumSub(D, NumMul(Lit(2), e))

(* C11: B_prime = max(B - 2*ex, 0.1) and L_prime = max(L - 2*ey, 0.1),     *)
(* with ex = |My/V| and ey = |Mx/V| when V # 0; hence B_prime >= 0.1 and   *)
(* L_prime >= 0.1 in every returned record (V = 500, My = 600, B = 2.0     *)
(* gives ex = 1.2 and B_prime = 0.1).                                      *)
C11_EffectiveDimensionsFloored ==
    Returned =>
      /\ load.V # Fin(0) =>
           /\ results.ex = MathAbs(NumDiv(load.My, load.V))
           /\ results.ey = MathAbs(NumDiv(load.Mx, load.V))
      /\ results.B_prime =
           (IF NumGe(Reduced(foundation.B, results.ex), Fin(100))
            THEN Reduced(foundation.B, results.ex) ELSE Fin(100))
      /\ results.L_prime =
           (IF NumGe(Reduced(foundation.L, results.ey), Fin(100))
            THEN Reduced(foundation.L, results.ey) ELSE Fin(100))
      /\ NumGe(results.B_prime, Fin(100))
      /\ NumGe(results.L_prime, Fin(100))
      /\ (load.V = Lit(500) /\ load.My = Lit(600) /\ foundation.B = Lit(2)) =>
           (results.ex = Fin(1200) /\ results.B_prime = Fin(100))

C11_Witness ==
    /\ Returned
    /\ load.V = Lit(500)
    /\ load.My = Lit(600)
    /\ foundation.B = Lit(2)
    /\ results.ex = Fin(1200)
    /\ NumLt(Reduced(foundation.B, results.ex), Fin(0))
    /\ results.B_prime = Fin(100)

(* the one-sixth rule on a raw plan dimension D                            *)
OutsideMiddleThird(e, D) == NumGt(NumDiv(e, D), Fin(167))

(* C12: eccentricity_check is true exactly when ex/B > 1/6 or ey/L > 1/6,  *)
(* on the raw B and L; a true flag does not stop the computation: the      *)
(* record holds every capacity and the settlement, and the flag shows only *)
(* in the status, after the settlement test.                               *)
C12_EccentricityFlag ==
    Returned =>
      /\ results.eccentricity_check <=>
           (\/ OutsideMiddleThird(results.ex, foundation.B)
            \/ OutsideMiddleThird(results.ey, foundation.L))
      /\ results.eccentricity_check =>
           /\ NumericFields \subseteq DOMAIN results
           /\ results.qu = NumAdd(NumAdd(results.term1, results.term2), results.term3)
           /\ results.status =
                (IF NumGt(results.settlement, Lit(25))
                 THEN "SETTLEMENT GOVERNING" ELSE "HIGH ECCENTRICITY")

C12_Witness ==
    /\ Returned
    /\ results.eccentricity_check
    /\ NumGt(foundation.B, Fin(0))
    /\ OutsideMiddleThird(results.ex, foundation.B)
    /\ ~OutsideMiddleThird(results.ey, foundation.L)
    /\ isFinite(results.qs)
    /\ NumGt(results.qu, Fin(0))
    /\ results.status = "HIGH ECCENTRICITY"

(* C13: with phi = 0 the factors are the constants Nc = 5.14, Nq = 1 and   *)
(* Ngamma = 0 whatever the other inputs are; the general formulas, which   *)
(* divide by tan(phi), are not used.                                       *)
C13_UndrainedFactors ==
    (Returned /\ soil.phi = Fin(0)) =>
      /\ results.Nc = Fin(5140)
      /\ results.Nq = Fin(1000)
      /\ results.Ngamma = Fin(0)

C13_Witness ==
    /\ Returned
    /\ soil.phi = Fin(0)
    /\ NumGt(soil.c, Fin(0))
    /\ results.Nc = Fin(5140)
    /\ NumGt(results.term1, Fin(0))
    /\ isFinite(results.qu)

(* the ratio B'/L' of the returned record and the factors built on it      *)
PlanRatio == NumDiv(results.B_prime, results.L_prime)

RatioSc == NumAdd(Lit(1), NumMul(Fin(200), PlanRatio))

RatioSq ==
    NumAdd(Lit(1),
           NumMul(NumMul(Fin(200), PlanRatio),
                  MathTan(deg2rad(NumAdd(Lit(45), NumDiv(soil.phi, Lit(2)))))))

HasShapeFactors(sc, sq, sgamma) ==
    results.sc = sc /\ results.sq = sq /\ results.sgamma = sgamma

(* the factors every statement of C14 gives to the three other shapes      *)
StripRectangularCircularFactors ==
    /\ foundation.shape = "Strip/Continuous" => HasShapeFactors(Lit(1), Lit(1), Lit(1))
    /\ foundation.shape = "Circular" => HasShapeFactors(Fin(1300), Fin(1200), Fin(600))
    /\ foundation.shape = "Rectangular" =>
         HasShapeFactors(RatioSc, RatioSq, NumSub(Lit(1), NumMul(Fin(400), PlanRatio)))

(* C14, as stated: for every phi, phi = 0 included, a strip has factors    *)
(* 1, 1, 1, a circle 1.3, 1.2, 0.6, and square and rectangle both have     *)
(* sc = 1 + 0.2*B'/L' and sq = 1 + 0.2*(B'/L')*tan(45 + phi/2), with       *)
(* sgamma = 0.8 for the square and 1 - 0.4*B'/L' for the rectangle.        *)
C14_ShapeFactorsAnyPhi ==
    Returned =>
      /\ StripRectangularCircularFactors
      /\ foundation.shape = "Square" => HasShapeFactors(RatioSc, RatioSq, Fin(800))

(* C14, amended: as above, except that the square has the ratio formulas   *)
(* for sc and sq only when phi > 0; with phi <= 0 it has sc = 1.3 and      *)
(* sq = 1.0; its sgamma is 0.8 at every phi.                               *)
C14_ShapeFactorsByPhi ==
    Returned =>
      /\ StripRectangularCircularFactors
      /\ (foundation.shape = "Square" /\ NumGt(soil.phi, Fin(0))) =>
           HasShapeFactors(RatioSc, RatioSq, Fin(800))
      /\ (foundation.shape = "Square" /\ NumLe(soil.phi, Fin(0))) =>
           HasShapeFactors(Fin(1300), Lit(1), Fin(800))

C14_Witness ==
    /\ Returned
    /\ foundation.shape = "Square"
    /\ soil.phi = Fin(0)
    /\ PlanRatio = Lit(1)
    /\ HasShapeFactors(Fin(1300), Lit(1), Fin(800))
    /\ RatioSc = Fin(1200)

(* the record of a second call that differs from the first in              *)
(* foundation.L alone                                                      *)
WithLength(l) ==
    calculateBearingCapacity(soil, [foundation EXCEPT !.L = l], load, waterTable, fos)

(* the computed quantities: flag, shape factors, terms, capacities,        *)
(* settlement and status                                                   *)
ComputedFields ==
    {"eccentricity_check", "sc", "sq", "sgamma", "term1", "term2", "term3",
     "qu", "qnu", "qns", "qs", "recommended_sbc", "settlement", "status"}

(* C15: for a Square or Circular foundation the length is ignored: a call  *)
(* that differs only in foundation.L (both lengths and the width positive) *)
(* returns the same eccentricity flag, shape factors, terms, capacities,   *)
(* settlement and status.                                                  *)
C15_LengthIgnored ==
    (/\ Returned
     /\ foundation.shape \in {"Square", "Circular"}
     /\ NumGt(foundation.B, Fin(0))
     /\ NumGt(foundation.L, Fin(0)))
      => \A l \in {x \in LengthSet : NumGt(x, Fin(0))} :
           \A f \in ComputedFields : WithLength(l)[f] = results[f]

(* C16: a penetration count that is present and 0 is not taken for an      *)
(* absent one: with spt_n = 0, qa_spt is the table value of the            *)
(* classification at N = 0 and recommended_sbc = min(qs, qa_spt); with no  *)
(* count, qa_spt is the not-applicable marker and recommended_sbc = qs.    *)
C16_ZeroCountIsPresent ==
    Returned =>
      /\ soil.spt_n = Fin(0) =>
           /\ ~isNaN(results.qa_spt)
           /\ results.qa_spt = allowablePressureSPT(soil.type, Fin(0))
           /\ results.recommended_sbc = MathMin(results.qs, results.qa_spt)
      /\ soil.spt_n = Undefined =>
           /\ isNaN(results.qa_spt)
           /\ results.recommended_sbc = results.qs

(* the two settlement estimates, from the returned qs and the arguments    *)
ElasticSettlement ==
    NumMul(NumDiv(NumMul(NumMul(NumMul(results.qs, foundation.B), Fin(910)), Fin(820)),
                  soil.Es),
           Lit(1000))

EmpiricalSettlement ==
    IF soil.type = "Cohesive (Clay)"
    THEN NumMul(NumDiv(results.qs, Lit(50)), Lit(25))
    ELSE NumMul(NumDiv(results.qs, Lit(100)), Lit(15))

StatedAngle ==
    IF load.V # Fin(0) THEN rad2deg(MathAtan(NumDiv(load.H, load.V))) ELSE Fin(0)

(* C18: alpha = atan(H/V) in degrees for every V # 0, positive or          *)
(* negative, and 0 when V = 0; ic = iq = (1 - alpha/90)^2 and              *)
(* igamma = (1 - alpha/phi)^2, phi replaced by 0.001 when phi = 0; so      *)
(* with V = 0 or H = 0 all three factors are 1.                            *)
C18_InclinationAnyV ==
    Returned =>
      /\ results.ic = MathPow2(NumSub(Lit(1), NumDiv(StatedAngle, Lit(90))))
      /\ results.iq = results.ic
      /\ results.igamma =
           MathPow2(NumSub(Lit(1),
                           NumDiv(StatedAngle,
                                  IF soil.phi = Fin(0) THEN Fin(1) ELSE soil.phi)))
      /\ (load.V = Fin(0) \/ load.H = Fin(0)) =>
           (results.ic = Lit(1) /\ results.iq = Lit(1) /\ results.igamma = Lit(1))

(* the arguments C20 calls physically meaningful, with FOS >= 1            *)
PhysicalInputs ==
    /\ NumGe(fos, Lit(1))
    /\ NumGe(soil.c, Fin(0))
    /\ NumGe(soil.phi, Fin(0)) /\ NumLe(soil.phi, Lit(45))
    /\ NumGe(soil.gamma, soil.gamma_sub) /\ NumGe(soil.gamma_sub, Fin(0))
    /\ NumGt(foundation.B, Fin(0)) /\ NumGt(foundation.L, Fin(0))
    /\ NumGe(foundation.Df, Fin(0))
    /\ NumGt(load.V, Fin(0)) /\ NumGe(load.H, Fin(0))
    /\ (WaterSupplied => NumGe(waterTable, Fin(0)))

(* C20: with FOS >= 1 and physically meaningful arguments the net          *)
(* ultimate capacity is not negative and the pressures are ordered:        *)
(* qnu >= 0 and recommended_sbc <= qs <= qu.                               *)
C20_OrderedCapacities ==
    (Returned /\ PhysicalInputs) =>
      /\ NumGe(results.qnu, Fin(0))
      /\ NumLe(results.recommended_sbc, results.qs)
      /\ NumLe(results.qs, results.qu)

(* the call takes the interpolation branch of W': a water table supplied,  *)
(* neither Dw <= Df nor Dw >= Df + B                                       *)
Interpolated ==
    /\ WaterSupplied
    /\ ~NumLe(waterTable, foundation.Df)
    /\ ~NumGe(waterTable, NumAdd(foundation.Df, foundation.B))

(* C21: in every returned record 0.5 <= W_prime <= 1, whatever B, Df and   *)
(* the water-table depth are (absent, negative, zero, B <= 0): the         *)
(* interpolation branch is reached only with Df < Dw < Df + B, and there   *)
(* W_prime lies strictly between 0.5 and 1.                                *)
C21_SelfWeightFactorRange ==
    Returned =>
      /\ NumGe(results.W_prime, Fin(500))
      /\ NumLe(results.W_prime, Lit(1))
      /\ Interpolated =>
           /\ NumGt(foundation.B, Fin(0))
           /\ NumLt(foundation.Df, waterTable)
           /\ NumLt(waterTable, NumAdd(foundation.Df, foundation.B))
           /\ NumGt(results.W_prime, Fin(500))
           /\ NumLt(results.W_prime, Lit(1))

C21_Witness ==
    /\ Returned
    /\ WaterSupplied
    /\ NumLt(foundation.B, Fin(0))
    /\ NumGt(waterTable, foundation.Df)
    /\ NumLe(waterTable, NumSub(foundation.Df, foundation.B))
    /\ ~Interpolated
    /\ results.W_prime = Lit(1)

(* the count one blow below the supplied one                               *)
CountBelow == NumSub(soil.spt_n, Lit(1))

(* C22: for each classification the table value is non-decreasing in the   *)
(* count N over the integers N >= 1, the breakpoints 10 and 30 (sand) and  *)
(* 4, 8, 15 (clay) included, and is positive there; Rock and an unmatched  *)
(* classification give 500 and 150 whatever N is.                          *)
C22_TableMonotone ==
    (Returned /\ soil.spt_n # Undefined /\ NumGe(soil.spt_n, Lit(1))) =>
      /\ NumGt(results.qa_spt, Fin(0))
      /\ NumGe(soil.spt_n, Lit(2)) =>
           NumLe(allowablePressureSPT(soil.type, CountBelow), results.qa_spt)
      /\ soil.type = "Rock" => results.qa_spt = Lit(500)
      /\ soil.type = "Other" => results.qa_spt = Lit(150)

C22_Witness ==
    /\ Returned
    /\ soil.type = "Cohesionless (Sand)"
    /\ soil.spt_n = Lit(10)
    /\ results.qa_spt = Lit(100)
    /\ allowablePressureSPT(soil.type, CountBelow) = Lit(70)

----------------------------------------------------------------------------
(* Properties of the App.                                                  *)

Rendered == pc = "rendered"

(* the engine applied to the input state as it is now                      *)
Recomputed == calculateBearingCapacity(soil, foundation, load, waterTable, fos)

(* the figures of a document are those of a full recomputation             *)
ExportedFromCurrentInputs ==
    exported # NoDocument =>
      /\ exported.recommended_sbc = toFixed(Recomputed.recommended_sbc, 2)
      /\ exported.settlement = toFixed(Recomputed.settlement, 2)
      /\ exported.qu = toFixed(Recomputed.qu, 2)
      /\ exported.status = Recomputed.status
      /\ exported.W_prime = toFixed(Recomputed.W_prime, 3)

(* C23: after any sequence of input edits and export-menu actions the      *)
(* results shown and exported are calculateBearingCapacity of the current  *)
(* inputs, every field recomputed, and a step that exports a document      *)
(* changes neither the inputs nor the results.                             *)
C23_ResultsFollowInputs ==
    /\ [](Rendered => (results = Recomputed /\ ExportedFromCurrentInputs))
    /\ [][exported' # NoDocument =>
            UNCHANGED <<soil, foundation, load, waterTable, fos, results>>]_vars

C23_Witness ==
    /\ Rendered
    /\ exported # NoDocument
    /\ exported.kind = "csv"
    /\ soil.phi = Fin(0)
    /\ foundation.shape = "Rectangular"
    /\ foundation.B = Lit(3)
    /\ waterTable = Fin(3500)
    /\ fos = Lit(1)
    /\ results.FOS = Lit(1)
    /\ results.FoundationWidth = Lit(3)

(* the engine result for the current inputs with only B replaced by b      *)
WithWidth(b) ==
    calculateBearingCapacity(soil, [foundation EXCEPT !.B = b], load, waterTable, fos)

(* C24: in every reachable App state each sweep point is the engine        *)
(* result for the current inputs with only the width replaced by the sweep *)
(* width; so when the current width is a sweep width, that point's         *)
(* recommended pressure and settlement are the displayed ones, rounded to  *)
(* two decimals.                                                           *)
C24_SweepMatchesMain ==
    Rendered =>
      \A i \in DOMAIN sensitivityData :
        /\ sensitivityData[i].sbc = toFixed(WithWidth(SweepWidths[i]).recommended_sbc, 2)
        /\ sensitivityData[i].settlement = toFixed(WithWidth(SweepWidths[i]).settlement, 2)
        /\ foundation.B = SweepWidths[i] =>
             /\ sensitivityData[i].sbc = toFixed(results.recommended_sbc, 2)
             /\ sensitivityData[i].settlement = toFixed(results.settlement, 2)

(* C25: in every reachable App state the water-table badge names the       *)
(* correction the engine applied: 'Surcharge Correction Active' exactly    *)
(* when the engine used the submerged surcharge with W_prime = 0.5,        *)
(* 'Self-Weight Correction Active' exactly when 0.5 < W_prime < 1, and     *)
(* 'No Correction (Dry)' exactly when W_prime = 1 with the dry surcharge,  *)
(* the depths Dw = Df and Dw = Df + B included.                            *)
C25_BadgeMatchesEngine ==
    Rendered =>
      /\ getWaterTableStatus = "Surcharge Correction Active" <=>
           (results.W_prime = Fin(500) /\ UsesSurcharge(SubmergedSurcharge))
      /\ getWaterTableStatus = "Self-Weight Correction Active" <=>
           (NumGt(results.W_prime, Fin(500)) /\ NumLt(results.W_prime, Lit(1)))
      /\ getWaterTableStatus = "No Correction (Dry)" <=>
           (results.W_prime = Lit(1) /\ UsesSurcharge(DrySurcharge))

====
